---------------------------- MODULE Spec2Model ----------------------------
(***************************************************************************)
(* Model of the two text helpers of app.py: within_past_week (the recency  *)
(* filter applied to every fetched news item) and basic_sanitize_ul (the   *)
(* sanitizer applied to the model-generated <ul> fragment).                *)
(*                                                                         *)
(* A Python str is a sequence of one-character strings.  Every regular     *)
(* expression of the source is translated to a matcher that returns the    *)
(* index just after the match starting at a given index (0: no match), and *)
(* every re.sub to a left-to-right scan that uses it, as re.sub does: a    *)
(* single pass that replaces the first match at or after the current       *)
(* index and resumes right after it.                                       *)
(***************************************************************************)
EXTENDS Integers, Sequences, FiniteSets, TLC

VARIABLES
    pc,             \* "idle" | "filtered" | "sanitized" | "resanitized"
    date_str,       \* argument of the last within_past_week call
    now,            \* the clock reading dt.now() of that call
    recent,         \* its return value
    html_fragment,  \* argument of the last basic_sanitize_ul call
    ul,             \* its return value
    ul2             \* the return value of a second pass over ul

vars == <<pc, date_str, now, recent, html_fragment, ul, ul2>>

---------------------------------------------------------------------------
(* Characters and character classes of Python's re module (ASCII part).    *)

\* The Python object None; no str equals it (its element is no character).
None == <<"None">>

LowerSeq == <<"a","b","c","d","e","f","g","h","i","j","k","l","m",
              "n","o","p","q","r","s","t","u","v","w","x","y","z">>

UpperSeq == <<"A","B","C","D","E","F","G","H","I","J","K","L","M",
              "N","O","P","Q","R","S","T","U","V","W","X","Y","Z">>

SecondsPerDay == 86400

DigitSeq == <<"0","1","2","3","4","5","6","7","8","9">>

LowerLetters == {LowerSeq[i] : i \in 1..26}

UpperLetters == {UpperSeq[i] : i \in 1..26}

Digits == {DigitSeq[i] : i \in 1..10}

LowerMap == [c \in UpperLetters |-> LowerSeq[CHOOSE i \in 1..26 : UpperSeq[i] = c]]

\* str.lower() on one character
LowerCh(c) == IF c \in UpperLetters THEN LowerMap[c] ELSE c

\* \s
IsSpace(c) == c \in {" ", "\t", "\n"}

\* \w
IsWord(c) == c \in LowerLetters \cup UpperLetters \cup Digits \cup {"_"}

\* [a-z0-9] under (?i)
IsAlnum(c) == c \in LowerLetters \cup UpperLetters \cup Digits

\* \d
IsDigit(c) == c \in Digits

\* s[i], or "" (no character) past either end
At(s, i) == IF i >= 1 /\ i <= Len(s) THEN s[i] ELSE ""

\* str.lower()
Lower(s) == [i \in 1..Len(s) |-> LowerCh(s[i])]

\* s[i:] (1-based, inclusive)
From(s, i) == SubSeq(s, i, Len(s))

\* the literal lit occurs in s at index i, case-sensitively
MatchLit(s, i, lit) ==
    /\ i >= 1
    /\ i + Len(lit) - 1 <= Len(s)
    /\ \A k \in 1..Len(lit) : s[i + k - 1] = lit[k]

\* the lower-case literal lit occurs in s at index i under (?i)
MatchLitCI(s, i, lit) ==
    /\ i >= 1
    /\ i + Len(lit) - 1 <= Len(s)
    /\ \A k \in 1..Len(lit) : LowerCh(s[i + k - 1]) = lit[k]

\* Python's  lit in s
Contains(s, lit) == \E i \in 1..Len(s) : MatchLit(s, i, lit)

\* \s* from index i: the index of the first non-space character at or after i
RECURSIVE SkipSpace(_, _)
SkipSpace(s, i) == IF IsSpace(At(s, i)) THEN SkipSpace(s, i + 1) ELSE i

\* \w* from index i
RECURSIVE SkipWord(_, _)
SkipWord(s, i) == IF IsWord(At(s, i)) THEN SkipWord(s, i + 1) ELSE i

\* [a-z0-9]* from index i
RECURSIVE SkipAlnum(_, _)
SkipAlnum(s, i) == IF IsAlnum(At(s, i)) THEN SkipAlnum(s, i + 1) ELSE i

\* \d* from index i
RECURSIVE SkipDigits(_, _)
SkipDigits(s, i) == IF IsDigit(At(s, i)) THEN SkipDigits(s, i + 1) ELSE i

\* [^'"]* from index i
RECURSIVE SkipNonQuote(_, _)
SkipNonQuote(s, i) ==
    IF i <= Len(s) /\ s[i] \notin {"'", "\""} THEN SkipNonQuote(s, i + 1) ELSE i

\* the least element of a non-empty set of numbers
Min(J) == CHOOSE j \in J : \A k \in J : j <= k

\* the index of the first c at or after i, 0 when there is none
FindChar(s, i, c) ==
    LET J == {j \in i..Len(s) : s[j] = c}
    IN  IF J = {} THEN 0 ELSE Min(J)

\* str.strip()
RECURSIVE RStrip(_)
RStrip(s) ==
    IF Len(s) > 0 /\ IsSpace(s[Len(s)]) THEN RStrip(SubSeq(s, 1, Len(s) - 1)) ELSE s

Strip(s) == RStrip(From(s, SkipSpace(s, 1)))

---------------------------------------------------------------------------
(* basic_sanitize_ul                                                       *)

L_script == <<"s","c","r","i","p","t">>

L_on == <<"o","n">>

L_href == <<"h","r","e","f">>

L_javascript == <<"j","a","v","a","s","c","r","i","p","t",":">>

L_hrefHash == <<"h","r","e","f","=","\"","#","\"">>

L_target == <<"t","a","r","g","e","t","=">>

L_rel == <<"r","e","l","=">>

L_addTarget == <<" ","t","a","r","g","e","t","=","\"","_","b","l","a","n","k","\"">>

L_addRel == <<" ","r","e","l","=","\"","n","o","o","p","e","n","e","r","\"">>

EmptyUl == <<"<","u","l",">","<","/","u","l",">">>

\* <\s*/\s*script\s*>  at index q
CloseScriptEnd(s, q) ==
    LET a == SkipSpace(s, q + 1)
        b == SkipSpace(s, a + 1)
        c == SkipSpace(s, b + Len(L_script))
    IN  IF /\ At(s, q) = "<"
           /\ At(s, a) = "/"
           /\ MatchLitCI(s, b, L_script)
           /\ At(s, c) = ">"
        THEN c + 1
        ELSE 0

\* .*?<\s*/\s*script\s*>  from index q: the lazy .*? stops at the first index
\* where the closing tag matches
FirstCloseScript(s, q) ==
    LET J == {j \in q..Len(s) : CloseScriptEnd(s, j) > 0}
    IN  IF J = {} THEN 0 ELSE CloseScriptEnd(s, Min(J))

\* (?is)<\s*script.*?>.*?<\s*/\s*script\s*>  at index i.  The first lazy .*?
\* ends at the first ">" after "script": a later ">" leaves fewer places for
\* the closing tag, so it matches only where the first one does.
ScriptMatchEnd(s, i) ==
    LET j == SkipSpace(s, i + 1)
        p == FindChar(s, j + Len(L_script), ">")
    IN  IF /\ At(s, i) = "<"
           /\ MatchLitCI(s, j, L_script)
           /\ p > 0
        THEN FirstCloseScript(s, p + 1)
        ELSE 0

\* re.sub(<script pattern>, "", s) from index i, starts being the indices
\* where the pattern matches
RECURSIVE SubScript(_, _, _)
SubScript(s, i, starts) ==
    LET J == {j \in starts : j >= i}
    IN  IF J = {} THEN From(s, i)
        ELSE LET j == Min(J)
                 e == ScriptMatchEnd(s, j)
             IN  SubSeq(s, i, j - 1) \o SubScript(s, e, starts)

\* (?is)\s+on\w+\s*=\s*(['"]).*?\1  at index i.  Each greedy run is followed
\* by a character outside its class, so no shorter run can match.
HandlerMatchEnd(s, i) ==
    LET o == SkipSpace(s, i)
        w == SkipWord(s, o + Len(L_on))
        e == SkipSpace(s, w)
        q == SkipSpace(s, e + 1)
        c == FindChar(s, q + 1, At(s, q))
    IN  IF /\ IsSpace(At(s, i))
           /\ MatchLitCI(s, o, L_on)
           /\ w > o + Len(L_on)
           /\ At(s, e) = "="
           /\ At(s, q) \in {"'", "\""}
           /\ c > 0
        THEN c + 1
        ELSE 0

\* re.sub(<handler pattern>, "", s) from index i, starts being the indices
\* where the pattern matches
RECURSIVE SubHandler(_, _, _)
SubHandler(s, i, starts) ==
    LET J == {j \in starts : j >= i}
    IN  IF J = {} THEN From(s, i)
        ELSE LET j == Min(J)
                 e == HandlerMatchEnd(s, j)
             IN  SubSeq(s, i, j - 1) \o SubHandler(s, e, starts)

\* (?i)href\s*=\s*(['"])\s*javascript:[^'"]*\1  at index i
HrefMatchEnd(s, i) ==
    LET e == SkipSpace(s, i + Len(L_href))
        q == SkipSpace(s, e + 1)
        j == SkipSpace(s, q + 1)
        c == SkipNonQuote(s, j + Len(L_javascript))
    IN  IF /\ MatchLitCI(s, i, L_href)
           /\ At(s, e) = "="
           /\ At(s, q) \in {"'", "\""}
           /\ MatchLitCI(s, j, L_javascript)
           /\ At(s, c) = At(s, q)
        THEN c + 1
        ELSE 0

\* re.sub(<href pattern>, 'href="#"', s) from index i, starts being the indices
\* where the pattern matches
RECURSIVE SubHref(_, _, _)
SubHref(s, i, starts) ==
    LET J == {j \in starts : j >= i}
    IN  IF J = {} THEN From(s, i)
        ELSE LET j == Min(J)
                 e == HrefMatchEnd(s, j)
             IN  SubSeq(s, i, j - 1) \o L_hrefHash \o SubHref(s, e, starts)

allowed == {<<"u","l">>, <<"l","i">>, <<"a">>, <<"s","t","r","o","n","g">>,
            <<"e","m">>, <<"c","o","d","e">>, <<"b","r">>}

\* the index where group 1 of the tag pattern starts for a tag at index i
TagNameStart(s, i) == IF At(s, i + 1) = "/" THEN i + 2 ELSE i + 1

\* (?is)</?([a-z0-9]+)(?:\s[^>]*)?>  at index i
TagMatchEnd(s, i) ==
    LET n == TagNameStart(s, i)
        e == SkipAlnum(s, n)
        g == FindChar(s, e + 1, ">")
    IN  IF At(s, i) = "<" /\ e > n
        THEN IF At(s, e) = ">" THEN e + 1
             ELSE IF IsSpace(At(s, e)) /\ g > 0 THEN g + 1
             ELSE 0
        ELSE 0

\* m.group(1) of a tag match at index i
TagName(s, i) == SubSeq(s, TagNameStart(s, i), SkipAlnum(s, TagNameStart(s, i)) - 1)

\* keep_or_strip(m) for the match s[i:e]
keep_or_strip(s, i, e) ==
    IF Lower(TagName(s, i)) \in allowed THEN SubSeq(s, i, e - 1) ELSE <<>>

\* re.sub(<tag pattern>, keep_or_strip, s) from index i, starts being the indices
\* where the pattern matches
RECURSIVE SubTag(_, _, _)
SubTag(s, i, starts) ==
    LET J == {j \in starts : j >= i}
    IN  IF J = {} THEN From(s, i)
        ELSE LET j == Min(J)
                 e == TagMatchEnd(s, j)
             IN  SubSeq(s, i, j - 1) \o keep_or_strip(s, j, e) \o SubTag(s, e, starts)

\* tag[:-1] + attr + ">"
AppendAttr(tag, attr) == SubSeq(tag, 1, Len(tag) - 1) \o attr \o <<">">>

EnsureTarget(tag) == IF ~Contains(tag, L_target) THEN AppendAttr(tag, L_addTarget) ELSE tag

EnsureRel(tag) == IF ~Contains(tag, L_rel) THEN AppendAttr(tag, L_addRel) ELSE tag

fix_link(tag) == EnsureRel(EnsureTarget(tag))

\* (?i)<a\b([^>]*)>  at index i
LinkMatchEnd(s, i) ==
    LET g == FindChar(s, i + 2, ">")
    IN  IF /\ At(s, i) = "<"
           /\ LowerCh(At(s, i + 1)) = "a"
           /\ ~IsWord(At(s, i + 2))
           /\ g > 0
        THEN g + 1
        ELSE 0

\* re.sub(<link pattern>, fix_link, s) from index i, starts being the indices
\* where the pattern matches
RECURSIVE SubLink(_, _, _)
SubLink(s, i, starts) ==
    LET J == {j \in starts : j >= i}
    IN  IF J = {} THEN From(s, i)
        ELSE LET j == Min(J)
                 e == LinkMatchEnd(s, j)
             IN  SubSeq(s, i, j - 1) \o fix_link(SubSeq(s, j, e - 1)) \o SubLink(s, e, starts)

\* the steps of basic_sanitize_ul, in the order of the source: each re.sub
\* scans from index 1 over the indices where its pattern matches
StripScripts(s) == SubScript(s, 1, {j \in 1..Len(s) : ScriptMatchEnd(s, j) > 0})

StripHandlers(s) == SubHandler(s, 1, {j \in 1..Len(s) : HandlerMatchEnd(s, j) > 0})

BlockJsUrls(s) == SubHref(s, 1, {j \in 1..Len(s) : HrefMatchEnd(s, j) > 0})

AllowlistTags(s) == SubTag(s, 1, {j \in 1..Len(s) : TagMatchEnd(s, j) > 0})

FixLinks(s) == SubLink(s, 1, {j \in 1..Len(s) : LinkMatchEnd(s, j) > 0})

\* Falsy when it also takes a string of blanks for empty
Falsy_blank(x) == x = None \/ Strip(x) = <<>>

\* `not x` for x a str or None
Falsy(x) == x = None \/ x = <<>>

basic_sanitize_ul(x) ==
    IF Falsy(x) THEN EmptyUl
    ELSE FixLinks(AllowlistTags(BlockJsUrls(StripHandlers(StripScripts(x)))))

---------------------------------------------------------------------------
(* within_past_week                                                        *)

L_yesterday == <<"y","e","s","t","e","r","d","a","y">>

L_ago == <<"a","g","o">>

\* the alternations (minute|min|minutes|mins), (hour|hr|hours|hrs),
\* (day|days), (week|weeks), each in the order of the source
MinuteUnits == <<<<"m","i","n","u","t","e">>, <<"m","i","n">>, <<"m","i","n","u","t","e","s">>, <<"m","i","n","s">>>>

HourUnits == <<<<"h","o","u","r">>, <<"h","r">>, <<"h","o","u","r","s">>, <<"h","r","s">>>>

DayUnits == <<<<"d","a","y">>, <<"d","a","y","s">>>>

WeekUnits == <<<<"w","e","e","k">>, <<"w","e","e","k","s">>>>

\* %b: calendar.month_abbr, lower-cased as _strptime's LocaleTime keeps it
a_month == <<<<"j","a","n">>,
            <<"f","e","b">>,
            <<"m","a","r">>,
            <<"a","p","r">>,
            <<"m","a","y">>,
            <<"j","u","n">>,
            <<"j","u","l">>,
            <<"a","u","g">>,
            <<"s","e","p">>,
            <<"o","c","t">>,
            <<"n","o","v">>,
            <<"d","e","c">>>>

\* %B: calendar.month_name, lower-cased
f_month == <<<<"j","a","n","u","a","r","y">>,
            <<"f","e","b","r","u","a","r","y">>,
            <<"m","a","r","c","h">>,
            <<"a","p","r","i","l">>,
            <<"m","a","y">>,
            <<"j","u","n","e">>,
            <<"j","u","l","y">>,
            <<"a","u","g","u","s","t">>,
            <<"s","e","p","t","e","m","b","e","r">>,
            <<"o","c","t","o","b","e","r">>,
            <<"n","o","v","e","m","b","e","r">>,
            <<"d","e","c","e","m","b","e","r">>>>

\* int(<digits>) of the digit run s[i..j-1]
DigitVal(c) == (CHOOSE k \in 1..10 : DigitSeq[k] = c) - 1

RECURSIVE ToInt(_, _, _)
ToInt(s, i, j) == IF j <= i THEN 0 ELSE ToInt(s, i, j - 1) * 10 + DigitVal(s[j - 1])

\* CountedMatch without the engine's backtracking: the first alternative that
\* matches is kept even when the rest of the pattern then fails
CountedMatch_first(s, units) ==
    LET d == SkipDigits(s, 1)
        a == SkipSpace(s, d)
        hit == {k \in 1..Len(units) : MatchLit(s, a, units[k])}
    IN  /\ d > 1
        /\ hit # {}
        /\ LET k == CHOOSE x \in hit : \A y \in hit : x <= y
           IN  MatchLit(s, SkipSpace(s, a + Len(units[k])), L_ago)

\* re.match(r"(\d+)\s*(u1|u2|...)\s*ago", s): a match at the start only; the
\* alternatives are tried in order and the next one is taken when the rest fails
CountedMatch(s, units) ==
    LET d == SkipDigits(s, 1)
        a == SkipSpace(s, d)
    IN  /\ d > 1
        /\ \E k \in 1..Len(units) :
              /\ MatchLit(s, a, units[k])
              /\ MatchLit(s, SkipSpace(s, a + Len(units[k])), L_ago)

\* int(m.group(1)) of such a match
CountedN(s) == ToInt(s, 1, SkipDigits(s, 1))

\* the three templates of the source, as lists of directives and literals;
\* _strptime turns each blank of a format into \s+
Formats == << <<"%b", " ", "%d", ",", " ", "%Y">>,
              <<"%B", " ", "%d", ",", " ", "%Y">>,
              <<"%b", ".", " ", "%d", ",", " ", "%Y">> >>

NoFields == [Y |-> 0, m |-> 0, d |-> 0]

\* The ways one format item can match at index i, in the order the regular
\* expression engine tries them: each is the index after the item and the
\* fields read so far.
\*   %b, %B  (?P<b>jan|feb|...): at most one name matches at an index, since
\*           no name of either list is the start of another of that list
\*   %d      (?P<d>3[0-1]|[1-2]\d|0[1-9]|[1-9]| [1-9])
\*   %Y      (?P<Y>\d\d\d\d)
\*   " "     \s+, greedy: the longest run first
\*   other   the character itself, under IGNORECASE
MonthOptions(s, i, names, acc) ==
    LET hit == {k \in 1..12 : MatchLitCI(s, i, names[k])}
    IN  IF hit = {} THEN <<>>
        ELSE LET k == CHOOSE x \in hit : TRUE
             IN  << [end |-> i + Len(names[k]), f |-> [acc EXCEPT !.m = k]] >>

DayOptions(s, i, acc) ==
    LET c1 == At(s, i)
        c2 == At(s, i + 1)
        two == [end |-> i + 2, f |-> [acc EXCEPT !.d = ToInt(s, i, i + 2)]]
        one == [end |-> i + 1, f |-> [acc EXCEPT !.d = ToInt(s, i, i + 1)]]
        sp  == [end |-> i + 2, f |-> [acc EXCEPT !.d = ToInt(s, i + 1, i + 2)]]
    IN  (IF c1 = "3" /\ c2 \in {"0", "1"} THEN <<two>> ELSE <<>>)
        \o (IF c1 \in {"1", "2"} /\ IsDigit(c2) THEN <<two>> ELSE <<>>)
        \o (IF c1 = "0" /\ IsDigit(c2) /\ c2 # "0" THEN <<two>> ELSE <<>>)
        \o (IF IsDigit(c1) /\ c1 # "0" THEN <<one>> ELSE <<>>)
        \o (IF c1 = " " /\ IsDigit(c2) /\ c2 # "0" THEN <<sp>> ELSE <<>>)

YearOptions(s, i, acc) ==
    IF \A k \in 0..3 : IsDigit(At(s, i + k))
    THEN << [end |-> i + 4, f |-> [acc EXCEPT !.Y = ToInt(s, i, i + 4)]] >>
    ELSE <<>>

SpaceOptions(s, i, acc) ==
    LET n == SkipSpace(s, i) - i
    IN  [k \in 1..n |-> [end |-> i + n - k + 1, f |-> acc]]

ItemOptions(s, i, item, acc) ==
    CASE item = "%b" -> MonthOptions(s, i, a_month, acc)
      [] item = "%B" -> MonthOptions(s, i, f_month, acc)
      [] item = "%d" -> DayOptions(s, i, acc)
      [] item = "%Y" -> YearOptions(s, i, acc)
      [] item = " "  -> SpaceOptions(s, i, acc)
      [] OTHER       -> IF LowerCh(At(s, i)) = item
                        THEN << [end |-> i + 1, f |-> acc] >> ELSE <<>>

\* format_regex.match(data_string): the first way, in backtracking order, to
\* match items k.. of fmt from index i; <<>> when there is none
RECURSIVE RegexMatch(_, _, _, _, _)
RECURSIVE TryOptions(_, _, _, _, _)
RegexMatch(s, i, fmt, k, acc) ==
    IF k > Len(fmt) THEN << [end |-> i, f |-> acc] >>
    ELSE TryOptions(s, fmt, k, ItemOptions(s, i, fmt[k], acc), 1)

TryOptions(s, fmt, k, opts, j) ==
    IF j > Len(opts) THEN <<>>
    ELSE LET r == RegexMatch(s, opts[j].end, fmt, k + 1, opts[j].f)
         IN  IF r # <<>> THEN r ELSE TryOptions(s, fmt, k, opts, j + 1)

\* the proleptic Gregorian calendar of datetime
IsLeap(y) == y % 4 = 0 /\ (y % 100 # 0 \/ y % 400 = 0)

DaysInMonth(y, m) ==
    IF m = 2 THEN (IF IsLeap(y) THEN 29 ELSE 28)
    ELSE IF m \in {4, 6, 9, 11} THEN 30 ELSE 31

RECURSIVE DaysBeforeMonth(_, _)
DaysBeforeMonth(y, m) ==
    IF m <= 1 THEN 0 ELSE DaysBeforeMonth(y, m - 1) + DaysInMonth(y, m - 1)

\* date(y, m, d).toordinal()
Ordinal(y, m, d) ==
    (y - 1) * 365 + (y - 1) \div 4 - (y - 1) \div 100 + (y - 1) \div 400
    + DaysBeforeMonth(y, m) + d

\* raised by strptime and caught by the loop of within_past_week
ValueError == [error |-> "ValueError"]

\* dt.strptime(s, fmt): the midnight datetime of the parsed day.  The match
\* must use the whole string ("unconverted data remains" otherwise) and the
\* fields must name a day of the calendar.
strptime(s, fmt) ==
    LET r == RegexMatch(s, 1, fmt, 1, NoFields)
    IN  IF r = <<>> THEN ValueError
        ELSE IF r[1].end # Len(s) + 1 THEN ValueError
        ELSE LET f == r[1].f
             IN  IF f.Y < 1 \/ f.d > DaysInMonth(f.Y, f.m) THEN ValueError
                 ELSE [year |-> f.Y, month |-> f.m, day |-> f.d, sec |-> 0]

\* datetime.toordinal()
toordinal(t) == Ordinal(t.year, t.month, t.day)

\* (a - b).days: datetime.__sub__ builds timedelta(days1 - days2, secs1 - secs2),
\* which carries whole days out of the seconds (floor division)
DeltaDays(a, b) == (toordinal(a) - toordinal(b)) + (a.sec - b.sec) \div SecondsPerDay

\* the bound on N of "N days ago"
DaysAgoLimit == 7

\* the bound on N of "N weeks ago"
WeeksAgoLimit == 1

\* the bound on the whole days between a parsed date and now
AbsoluteLimit == 7

\* ParseAbsolute with the window closed one day early (< for <=)
RECURSIVE ParseAbsolute_lt(_, _, _)
ParseAbsolute_lt(date, t, k) ==
    IF k > Len(Formats) THEN FALSE
    ELSE LET when == strptime(Strip(date), Formats[k])
         IN  IF when # ValueError THEN DeltaDays(t, when) < AbsoluteLimit
             ELSE ParseAbsolute_lt(date, t, k + 1)

\* the loop over the templates, from template k on
RECURSIVE ParseAbsolute(_, _, _)
ParseAbsolute(date, t, k) ==
    IF k > Len(Formats) THEN FALSE
    ELSE LET when == strptime(Strip(date), Formats[k])
         IN  IF when # ValueError THEN DeltaDays(t, when) <= AbsoluteLimit
             ELSE ParseAbsolute(date, t, k + 1)

\* within_past_week(date), dt.now() reading t: a datetime is a record of its
\* calendar day and the second of that day
within_past_week(date, t) ==
    IF Falsy(date) THEN FALSE
    ELSE LET s == Lower(Strip(date))
         IN  IF Contains(s, L_yesterday) THEN TRUE
             ELSE IF CountedMatch(s, MinuteUnits) THEN TRUE
             ELSE IF CountedMatch(s, HourUnits) THEN TRUE
             ELSE IF CountedMatch(s, DayUnits) THEN CountedN(s) <= DaysAgoLimit
             ELSE IF CountedMatch(s, WeekUnits) THEN CountedN(s) <= WeeksAgoLimit
             ELSE ParseAbsolute(date, t, 1)

---------------------------------------------------------------------------
(* The calls.  generate() filters every fetched item with within_past_week *)
(* and passes the fragment the language model returns, which it does not   *)
(* control, to basic_sanitize_ul.  The arguments are drawn from bounded    *)
(* sets of strings: a fragment is a concatenation of at most MaxParts      *)
(* pieces of markup.                                                       *)

MaxParts == 5

MaxBlank == 4

\* the concatenations of at most n pieces of P
RECURSIVE Frags(_, _)
Frags(P, n) ==
    IF n = 0 THEN {<<>>}
    ELSE LET prev == Frags(P, n - 1)
         IN  prev \cup {x \o p : x \in prev, p \in P}

\* the strings of at most n characters of A
RECURSIVE Strings(_, _)
Strings(A, n) ==
    IF n = 0 THEN {<<>>}
    ELSE LET prev == Strings(A, n - 1)
         IN  prev \cup {Append(x, c) : x \in prev, c \in A}

\* nested and split tags:  <  <b>  b>  <scr  ipt>  <ul>  </b>
TagPieces ==
    {<<"<">>,
     <<"<","b",">">>,
     <<"b",">">>,
     <<"<","s","c","r">>,
     <<"i","p","t",">">>,
     <<"<","u","l",">">>,
     <<"<","/","b",">">>}

\* script blocks, whole and split by a tag:
\*   <script>  </script>  <scr  <b>  ipt>  x  </ SCRIPT >
ScriptPieces ==
    {<<"<","s","c","r","i","p","t",">">>,
     <<"<","/","s","c","r","i","p","t",">">>,
     <<"<","s","c","r">>,
     <<"<","b",">">>,
     <<"i","p","t",">">>,
     <<"x">>,
     <<"<","/"," ","S","C","R","I","P","T"," ",">">>}

\* quoted on* attributes, whole and in parts:
\*   <a  >  _on  _onclick="1"  click="2"  _onload='3'  _href="x"
HandlerPieces ==
    {<<"<","a">>,
     <<">">>,
     <<" ","o","n">>,
     <<" ","o","n","c","l","i","c","k","=","\"","1","\"">>,
     <<"c","l","i","c","k","=","\"","2","\"">>,
     <<" ","o","n","l","o","a","d","=","'","3","'">>,
     <<" ","h","r","e","f","=","\"","x","\"">>}

\* href attributes with a javascript: value, quoted either way or not at all:
\*   <a_  href=  >  "javascript:x"  'JavaScript:x'  javascript:x  "javascript:alert('x')"
HrefPieces ==
    {<<"<","a"," ">>,
     <<"h","r","e","f","=">>,
     <<">">>,
     <<"\"","j","a","v","a","s","c","r","i","p","t",":","x","\"">>,
     <<"'","J","a","v","a","S","c","r","i","p","t",":","x","'">>,
     <<"j","a","v","a","s","c","r","i","p","t",":","x">>,
     <<"\"","j","a","v","a","s","c","r","i","p","t",":","a","l","e","r","t","(","'","x","'",")","\"">>}

\* anchors with and without target and rel:
\*   <a  >  _href="x"  _target="_blank"  _rel="noopener"  _target="_self"  <li>
LinkPieces ==
    {<<"<","a">>,
     <<">">>,
     <<" ","h","r","e","f","=","\"","x","\"">>,
     <<" ","t","a","r","g","e","t","=","\"","_","b","l","a","n","k","\"">>,
     <<" ","r","e","l","=","\"","n","o","o","p","e","n","e","r","\"">>,
     <<" ","t","a","r","g","e","t","=","\"","_","s","e","l","f","\"">>,
     <<"<","l","i",">">>}

\* allowlisted tags, anchors that have target= and rel=, on* attributes:
\*   </li>  <a target="_blank" rel="noopener"  >  _on  _onx="1"  x="2"  _href="javascript:x"
IdemPieces ==
    {<<"<","/","l","i",">">>,
     <<"<","a"," ","t","a","r","g","e","t","=","\"","_","b","l","a","n","k","\""," ","r","e","l","=","\"","n","o","o","p","e","n","e","r","\"">>,
     <<">">>,
     <<" ","o","n">>,
     <<" ","o","n","x","=","\"","1","\"">>,
     <<"x","=","\"","2","\"">>,
     <<" ","h","r","e","f","=","\"","j","a","v","a","s","c","r","i","p","t",":","x","\"">>}

MaxCount == 15

MaxBack == 9

MaxAhead == 3

\* str(n)
RECURSIVE Str(_)
Str(n) ==
    IF n < 10 THEN <<DigitSeq[n + 1]>>
    ELSE Str(n \div 10) \o <<DigitSeq[(n % 10) + 1]>>

UpperMap == [c \in LowerLetters |-> UpperSeq[CHOOSE i \in 1..26 : LowerSeq[i] = c]]

UpperCh(c) == IF c \in LowerLetters THEN UpperMap[c] ELSE c

\* str.upper(), str.capitalize()
Upper(s) == [i \in 1..Len(s) |-> UpperCh(s[i])]

Capitalize(s) == [i \in 1..Len(s) |-> IF i = 1 THEN UpperCh(s[i]) ELSE s[i]]

Cased(s, c) ==
    CASE c = "lower" -> s
      [] c = "upper" -> Upper(s)
      [] c = "capitalized" -> Capitalize(s)

Casings == {"lower", "upper", "capitalized"}

\* the blanks around a date string
Leads == {<<>>, <<" ">>}

Trails == {<<>>, <<" ", "\n">>}

UnitKinds == {"minute", "hour", "day", "week"}

UnitsOf(kind) ==
    CASE kind = "minute" -> MinuteUnits
      [] kind = "hour" -> HourUnits
      [] kind = "day" -> DayUnits
      [] kind = "week" -> WeekUnits

\* "<N> <unit> ago"
Counted(n, unit) == Str(n) \o <<" ">> \o unit \o <<" ">> \o L_ago

\* UnitsOf(kind)[u] exists
HasUnit(kind, u) == u <= Len(UnitsOf(kind))

\* every rendering of "<N> <unit> ago" for N in counts, with what it says
CountedCasesOf(counts) ==
    {[str |-> l \o Cased(Counted(n, UnitsOf(ku[1])[ku[2]]), c) \o t, n |-> n, kind |-> ku[1]] :
        n \in counts,
        ku \in {x \in UnitKinds \X (1..4) : HasUnit(x[1], x[2])},
        c \in Casings, l \in Leads, t \in Trails}

\* the clock readings of the calls
ClockDays == {[year |-> 2025, month |-> 10, day |-> 11],
              [year |-> 2024, month |-> 3, day |-> 1],
              [year |-> 2026, month |-> 1, day |-> 3]}

ClockSeconds == {0, 55800, 86399}

Clocks == {[year |-> c.year, month |-> c.month, day |-> c.day, sec |-> s] :
              c \in ClockDays, s \in ClockSeconds}

\* the calendar day before and after a day
PrevDay(c) ==
    IF c.day > 1 THEN [c EXCEPT !.day = c.day - 1]
    ELSE IF c.month > 1
         THEN [c EXCEPT !.month = c.month - 1, !.day = DaysInMonth(c.year, c.month - 1)]
         ELSE [year |-> c.year - 1, month |-> 12, day |-> 31]

NextDay(c) ==
    IF c.day < DaysInMonth(c.year, c.month) THEN [c EXCEPT !.day = c.day + 1]
    ELSE IF c.month < 12 THEN [c EXCEPT !.month = c.month + 1, !.day = 1]
         ELSE [year |-> c.year + 1, month |-> 1, day |-> 1]

\* the day k days before c (after it, for k < 0)
RECURSIVE DaysBefore(_, _)
DaysBefore(c, k) ==
    IF k = 0 THEN c
    ELSE IF k > 0 THEN DaysBefore(PrevDay(c), k - 1)
    ELSE DaysBefore(NextDay(c), k + 1)

\* the day of the month, as written ("4") or zero-padded as strftime writes it ("04")
DayText(d, padded) == IF padded /\ d < 10 THEN <<"0">> \o Str(d) ELSE Str(d)

\* a day written under template tpl of Formats
FormatDate(tpl, c, padded) ==
    LET name == CASE tpl = 1 -> Capitalize(a_month[c.month])
                  [] tpl = 2 -> Capitalize(f_month[c.month])
                  [] tpl = 3 -> Capitalize(a_month[c.month]) \o <<".">>
    IN  name \o <<" ">> \o DayText(c.day, padded) \o <<",", " ">> \o Str(c.year)

\* every absolute date from MaxAhead days after a clock day to MaxBack days
\* before it, under every template, with the clock day and the distance
AbsoluteCases ==
    {[str |-> l \o Cased(FormatDate(tpl, DaysBefore(c, k), p), cs), clock |-> c, back |-> k] :
        c \in ClockDays, k \in (0 - MaxAhead)..MaxBack, tpl \in 1..3,
        p \in BOOLEAN, cs \in {"capitalized", "upper"}, l \in Leads}

CountedCases == CountedCasesOf(0..MaxCount)

ClockDay(t) == [year |-> t.year, month |-> t.month, day |-> t.day]

CountedPairs == {<<c.str, t>> : c \in CountedCases, t \in {[year |-> 2025, month |-> 10, day |-> 11, sec |-> 55800]}}

AbsolutePairs ==
    {<<c.str, [year |-> c.clock.year, month |-> c.clock.month, day |-> c.clock.day, sec |-> s]>> :
        c \in AbsoluteCases, s \in ClockSeconds}

\* the counts tried for stale items: around the bounds of the day and
\* week forms, and hours that add up to more than a week
StaleCounts == {0, 1, 7, 8, 168, 169, 200}

StaleCases == CountedCasesOf(StaleCounts)

\* strings that are no date at all
Unparseable ==
    {<<"t","o","d","a","y">>,
     <<"3"," ","d","a","y","s">>,
     <<"l","a","s","t"," ","w","e","e","k">>,
     <<"O","c","t","e","m","b","e","r"," ","4",","," ","2","0","2","5">>,
     <<"F","e","b"," ","3","0",","," ","2","0","2","5">>,
     <<"a","g","o">>,
     <<" ">>,
     <<"O","c","t"," ","4"," ","2","0","2","5">>}

YesterdayForms == {<<"y","e","s","t","e","r","d","a","y">>, <<"Y","e","s","t","e","r","d","a","y">>}

DatePairs ==
    {<<d, t>> : d \in {c.str : c \in StaleCases} \cup Unparseable \cup YesterdayForms \cup {None, <<>>},
                t \in {[year |-> 2025, month |-> 10, day |-> 11, sec |-> 55800]}}

BlankChars == {" ", "\t", "\n", "x"}

\* html_fragment is None, or a string of blanks and text
BlankInputs == {None} \cup Strings(BlankChars, MaxBlank)

\* one call basic_sanitize_ul(x), x in X (llm_ul_fragment's return statement)
Sanitize(X) ==
    /\ pc = "idle"
    /\ \E x \in X :
          /\ html_fragment' = x
          /\ ul' = basic_sanitize_ul(x)
    /\ ul2' = <<>>
    /\ pc' = "sanitized"
    /\ UNCHANGED <<date_str, now, recent>>

\* a second pass over the result of the first
SecondPass ==
    /\ pc = "sanitized"
    /\ ul2' = basic_sanitize_ul(ul)
    /\ pc' = "resanitized"
    /\ UNCHANGED <<date_str, now, recent, html_fragment, ul>>

\* one call within_past_week(d) with dt.now() reading t, <<d, t>> in P (the
\* filter of fetch_and_clean_news)
Classify(P) ==
    /\ pc = "idle"
    /\ \E p \in P :
          /\ date_str' = p[1]
          /\ now' = p[2]
          /\ recent' = within_past_week(p[1], p[2])
    /\ pc' = "filtered"
    /\ UNCHANGED <<html_fragment, ul, ul2>>

ClassifyCounted == Classify(CountedPairs)

ClassifyAbsolute == Classify(AbsolutePairs)

ClassifyDates == Classify(DatePairs)

SanitizeTags == Sanitize(Frags(TagPieces, MaxParts))

SanitizeScripts == Sanitize(Frags(ScriptPieces, MaxParts))

SanitizeHandlers == Sanitize(Frags(HandlerPieces, MaxParts))

SanitizeHrefs == Sanitize(Frags(HrefPieces, MaxParts))

SanitizeLinks == Sanitize(Frags(LinkPieces, MaxParts))

\* a bullet <li> followed by pieces, so that no fragment is emptied
IdemInputs == {<<"<","l","i",">">> \o f : f \in Frags(IdemPieces, MaxParts)}

SanitizeIdem == Sanitize(IdemInputs)

SanitizeBlank == Sanitize(BlankInputs)

---------------------------------------------------------------------------
(* What the claims speak of: the tags of a string, found as the tag        *)
(* pattern of the sanitizer itself finds them, scanning from the left.     *)

RECURSIVE TagsFrom(_, _, _)
TagsFrom(s, i, starts) ==
    LET J == {j \in starts : j >= i}
    IN  IF J = {} THEN {}
        ELSE LET j == Min(J)
                 e == TagMatchEnd(s, j)
             IN  {[from |-> j, to |-> e - 1]} \cup TagsFrom(s, e, starts)

TagsOf(s) == TagsFrom(s, 1, {j \in 1..Len(s) : TagMatchEnd(s, j) > 0})

TagNamesIn(s) == {Lower(TagName(s, t.from)) : t \in TagsOf(s)}

\* the <a ...> opening tags of s, as the link pattern finds them
RECURSIVE LinksFrom(_, _, _)
LinksFrom(s, i, starts) ==
    LET J == {j \in starts : j >= i}
    IN  IF J = {} THEN {}
        ELSE LET j == Min(J)
                 e == LinkMatchEnd(s, j)
             IN  {SubSeq(s, j, e - 1)} \cup LinksFrom(s, e, starts)

LinksOf(s) == LinksFrom(s, 1, {j \in 1..Len(s) : LinkMatchEnd(s, j) > 0})

InsideTag(s, i) == \E t \in TagsOf(s) : t.from < i /\ i < t.to

Quotes == {"'", "\""}

\* at index i an attribute href = value starts, its value quoted or not,
\* and the value begins with javascript: in any casing
JsHrefAt(s, i) ==
    LET e == SkipSpace(s, i + Len(L_href))
        q == SkipSpace(s, e + 1)
        v == IF At(s, q) \in Quotes THEN SkipSpace(s, q + 1) ELSE q
    IN  /\ MatchLitCI(s, i, L_href)
        /\ At(s, e) = "="
        /\ MatchLitCI(s, v, L_javascript)

\* at index i a blank starts an attribute on<name> = <value>
HandlerAt(s, i) ==
    LET w == SkipWord(s, i + 1 + Len(L_on))
        e == SkipSpace(s, w)
        v == SkipSpace(s, e + 1)
    IN  /\ IsSpace(At(s, i))
        /\ MatchLitCI(s, i + 1, L_on)
        /\ w > i + 1 + Len(L_on)
        /\ At(s, e) = "="
        /\ At(s, v) \notin {"", ">"}

L_targetBlank == <<"t","a","r","g","e","t","=","\"","_","b","l","a","n","k","\"">>

L_relNoopener == <<"r","e","l","=","\"","n","o","o","p","e","n","e","r","\"">>

IsBlank(x) == x # None /\ \A i \in 1..Len(x) : IsSpace(x[i])

\* C1: every tag, opening or closing, of basic_sanitize_ul(x) has its name in
\* the allowlist, whatever x is.
C1_OnlyAllowlistedTags ==
    pc = "sanitized" => TagNamesIn(ul) \subseteq allowed

\* C2: no href attribute of basic_sanitize_ul(x) has a value that begins with
\* javascript:, however it was quoted or spaced in x.
C2_NoJavascriptHref ==
    pc = "sanitized" =>
        \A i \in 1..Len(ul) : ~(InsideTag(ul, i) /\ JsHrefAt(ul, i))

\* C3: every <a ...> opening tag of basic_sanitize_ul(x) carries
\* target="_blank" and rel="noopener".
C3_LinksCarryTargetAndRel ==
    pc = "sanitized" =>
        \A tag \in LinksOf(ul) :
            Contains(tag, L_targetBlank) /\ Contains(tag, L_relNoopener)

\* C4: no tag of basic_sanitize_ul(x) keeps an inline event handler, a
\* blank-preceded attribute on<name> = <value>.
C4_NoEventHandler ==
    pc = "sanitized" =>
        \A i \in 1..Len(ul) : ~(InsideTag(ul, i) /\ HandlerAt(ul, i))

\* C5 as stated: basic_sanitize_ul returns "<ul></ul>" for None, for the empty
\* string and for every string of blanks only.
C5_BlankGivesEmptyUl ==
    (pc = "sanitized" /\ (html_fragment = None \/ IsBlank(html_fragment)))
        => ul = EmptyUl

\* C5 as amended: basic_sanitize_ul returns "<ul></ul>" for None and for the
\* empty string, and returns a non-empty string of blanks as it is.
C5_EmptyGivesEmptyUl ==
    pc = "sanitized" =>
        /\ html_fragment \in {None, <<>>} => ul = EmptyUl
        /\ (IsBlank(html_fragment) /\ html_fragment # <<>>) => ul = html_fragment

C5_Witness ==
    /\ pc = "sanitized"
    /\ html_fragment = <<>>
    /\ ul = EmptyUl

\* what C6 says within_past_week returns for "<N> <unit> ago"
CountedExpected(n, kind) ==
    CASE kind \in {"minute", "hour"} -> TRUE
      [] kind = "day" -> n <= 7
      [] kind = "week" -> n <= 1

C7_AbsoluteDates ==
    pc = "filtered" =>
        \A c \in AbsoluteCases :
            (c.str = date_str /\ c.clock = ClockDay(now)) => recent = (c.back <= 7)

C7_Witness ==
    /\ pc = "filtered"
    /\ date_str = <<"O", "c", "t", " ", "4", ",", " ", "2", "0", "2", "5">>
    /\ now = [year |-> 2025, month |-> 10, day |-> 11, sec |-> 55800]
    /\ recent = TRUE

\* how long ago, in minutes, "<N> <unit> ago" says the item appeared
AgeMinutes(n, kind) ==
    CASE kind = "minute" -> n
      [] kind = "hour" -> n * 60
      [] kind = "day" -> n * 1440
      [] kind = "week" -> n * 10080

\* C8: within_past_week gives no false positive (when it returns true, the
\* instant the string names is at most 7 days before now), and it returns
\* false for None, the empty string and a string that is no date.
C8_NoFalsePositive ==
    pc = "filtered" =>
        /\ \A c \in StaleCases :
              (c.str = date_str /\ recent) => AgeMinutes(c.n, c.kind) <= 7 * 1440
        /\ date_str \in Unparseable \cup {None, <<>>} => ~recent

\* the intended domain of C9: only allowlisted tags, and every <a ...> tag
\* already holds target= and rel=
InDomain(x) ==
    /\ TagNamesIn(x) \subseteq allowed
    /\ \A tag \in LinksOf(x) : Contains(tag, L_target) /\ Contains(tag, L_rel)

\* C9: on a fragment of the intended domain a second pass changes nothing:
\* basic_sanitize_ul(basic_sanitize_ul(x)) = basic_sanitize_ul(x).
C9_Idempotent ==
    (pc = "resanitized" /\ InDomain(html_fragment)) => ul2 = ul

\* C10: no script tag is left anywhere in basic_sanitize_ul(x), each
\* <script>...</script> block having been removed with its content.
C10_NoScriptTag ==
    pc = "sanitized" => L_script \notin TagNamesIn(ul)

---------------------------------------------------------------------------
Init ==
    /\ pc = "idle"
    /\ date_str = <<>>
    /\ now = [year |-> 1, month |-> 1, day |-> 1, sec |-> 0]
    /\ recent = FALSE
    /\ html_fragment = <<>>
    /\ ul = <<>>
    /\ ul2 = <<>>

\* generate() returns its response; the next request starts afresh
Respond ==
    /\ pc # "idle"
    /\ pc' = "idle"
    /\ date_str' = <<>>
    /\ now' = [year |-> 1, month |-> 1, day |-> 1, sec |-> 0]
    /\ recent' = FALSE
    /\ html_fragment' = <<>>
    /\ ul' = <<>>
    /\ ul2' = <<>>

SpecCounted == Init /\ [][ClassifyCounted \/ Respond]_vars

SpecAbsolute == Init /\ [][ClassifyAbsolute \/ Respond]_vars

SpecDates == Init /\ [][ClassifyDates \/ Respond]_vars

SpecTags == Init /\ [][SanitizeTags \/ Respond]_vars

SpecScripts == Init /\ [][SanitizeScripts \/ Respond]_vars

SpecHandlers == Init /\ [][SanitizeHandlers \/ Respond]_vars

SpecHrefs == Init /\ [][SanitizeHrefs \/ Respond]_vars

SpecLinks == Init /\ [][SanitizeLinks \/ Respond]_vars

SpecIdem == Init /\ [][SanitizeIdem \/ SecondPass \/ Respond]_vars

SpecBlank == Init /\ [][SanitizeBlank \/ Respond]_vars

=============================================================================
